---- MODULE Spec2Model ----
(***************************************************************************)
(* Rules engine of Onoro (src/pylib/onoro.py, src/pylib/coord.py): the     *)
(* game state (pawn list, black_turn, num_pawns), move generation for the  *)
(* placement and relocation phases, move application, win detection and    *)
(* the serialize / deserialize validation.                                 *)
(*                                                                         *)
(* A coordinate is a pair <<x, y>>; a pawn is a record [x, y, black]; the  *)
(* pawn list is a sequence, in the order the code keeps it.                *)
(***************************************************************************)
EXTENDS Integers, Sequences, FiniteSets

VARIABLES pawns, black_turn, num_pawns, nmoves, ret

vars == <<pawns, black_turn, num_pawns, nmoves, ret>>

(* ------------------------------ bounds -------------------------------- *)

\* largest num_pawns a game is started with
MaxNumPawns == 7

\* number of moves applied along one behaviour
MaxMoves == 4

(* --------------------------- coord.py --------------------------------- *)

CoordAdd(a, b) == <<a[1] + b[1], a[2] + b[2]>>

CoordSub(a, b) == <<a[1] - b[1], a[2] - b[2]>>

PawnToCoord(pawn) == <<pawn.x, pawn.y>>

CoordToPawn(coord, black) == [x |-> coord[1], y |-> coord[2], black |-> black]

\* the neighbour list with (-1, 1) where the code has (-1, -1)
NeighborDeltas_M == << <<1, 0>>, <<1, 1>>, <<0, 1>>, <<-1, 0>>, <<-1, 1>>, <<0, -1>> >>

NeighborDeltas == << <<1, 0>>, <<1, 1>>, <<0, 1>>, <<-1, 0>>, <<-1, -1>>, <<0, -1>> >>

\* entry i of the 6-tuple coord_neighbors returns
Neighbor(pawn, i) == CoordAdd(pawn, NeighborDeltas[i])

\* the 6-tuple of neighbours, in the order the code lists them
coord_neighbors(pawn) == [i \in 1..6 |-> Neighbor(pawn, i)]

(* --------------------------- Onoro ------------------------------------ *)

EMPTY == 0
BLACK == 1
WHITE == 2

\* a win called one pawn early
N_IN_ROW_TO_WIN_M == 2 + 1

N_IN_ROW_TO_WIN == 4

\* what PawnAt stands for when it raises 'Multiple pawns at position'
MultiplePawns == 3

PawnAt(ps, coord) ==
  LET pawns_at == {i \in 1..Len(ps) : <<ps[i].x, ps[i].y>> = coord}
  IN  IF pawns_at = {} THEN EMPTY
      ELSE IF Cardinality(pawns_at) = 1
           THEN (IF ps[CHOOSE i \in pawns_at : TRUE].black THEN BLACK ELSE WHITE)
           ELSE MultiplePawns

\* the loop "while self.PawnAt(pos) == color: n_in_row += 1; pos += delta":
\* the number of steps taken, or -1 when PawnAt raises
RECURSIVE RunLength(_, _, _, _)
RunLength(ps, pos, delta, color) ==
  LET at == PawnAt(ps, pos)
  IN  IF at = MultiplePawns THEN -1
      ELSE IF at = color
           THEN LET r == RunLength(ps, CoordAdd(pos, delta), delta, color)
                IN  IF r = -1 THEN -1 ELSE r + 1
           ELSE 0

\* the directions of a square grid: (1, -1) where the code has (0, 1)
WinDeltas_MSquare == << <<1, 0>>, <<1, 1>>, <<1, -1>> >>

\* the direction (1, 0) listed twice, (0, 1) never
WinDeltas_M == << <<1, 0>>, <<1, 1>>, <<1, 0>> >>

WinDeltas == << <<1, 0>>, <<1, 1>>, <<0, 1>> >>

RetTrue == "True"
RetFalse == "False"
ErrCurrentPlayerWinning == "RuntimeError: Cannot have current player winning"
ErrMultiplePawns == "RuntimeError: Multiple pawns at position"

\* HasWinner from pawn number i, direction number d on
RECURSIVE HasWinnerFrom(_, _, _, _, _)
HasWinnerFrom(ps, bt, check_errors, i, d) ==
  IF i > Len(ps) THEN RetFalse
  ELSE
    LET pawn == ps[i]
        color == IF pawn.black THEN BLACK ELSE WHITE
        pawn_pos == <<pawn.x, pawn.y>>
        delta == WinDeltas[d]
        fwd == RunLength(ps, CoordAdd(pawn_pos, delta), delta, color)
        bwd == RunLength(ps, CoordSub(pawn_pos, delta), <<-delta[1], -delta[2]>>, color)
    IN  IF fwd = -1 THEN ErrMultiplePawns
        ELSE IF bwd = -1 THEN ErrMultiplePawns
        ELSE IF 1 + fwd + bwd >= N_IN_ROW_TO_WIN
             THEN (IF check_errors /\ pawn.black = bt
                   THEN ErrCurrentPlayerWinning
                   ELSE RetTrue)
             ELSE IF d < 3
                  THEN HasWinnerFrom(ps, bt, check_errors, i, d + 1)
                  ELSE HasWinnerFrom(ps, bt, check_errors, i + 1, 1)

HasWinner(ps, bt, check_errors) == HasWinnerFrom(ps, bt, check_errors, 1, 1)

\* PlayableSpots counting the occupied cells as well
PlayableCounts_M(coords) ==
  LET keys == UNION {{Neighbor(p, i) : i \in 1..6} : p \in coords}
  IN  [c \in keys |->
         Cardinality({i \in 1..6 : CoordSub(c, NeighborDeltas[i]) \in coords})]

\* counts[coord] is incremented once for every pawn and every slot i of its
\* neighbour tuple with pawn + NeighborDeltas[i] = coord, coord not a pawn:
\* one increment for each i with coord - NeighborDeltas[i] a pawn
PlayableCounts(coords) ==
  LET keys == {c \in UNION {{Neighbor(p, i) : i \in 1..6} : p \in coords} :
                 c \notin coords}
  IN  [c \in keys |->
         Cardinality({i \in 1..6 : CoordSub(c, NeighborDeltas[i]) \in coords})]

\* PlayableSpots that asks for three occupied neighbours
PlayableSpots_MThree(coords) ==
  LET counts == PlayableCounts(coords)
  IN  {loc \in DOMAIN counts : counts[loc] >= 3}

\* PlayableSpots that is content with one occupied neighbour
PlayableSpots_M(coords) ==
  LET counts == PlayableCounts(coords)
  IN  {loc \in DOMAIN counts : counts[loc] >= 1}

PlayableSpots(coords) ==
  LET counts == PlayableCounts(coords)
  IN  {loc \in DOMAIN counts : counts[loc] >= 2}

\* _RemoveAdjacent, from neighbour slot i of pawn on
RECURSIVE RemoveAdjacentFrom(_, _, _)
RemoveAdjacentFrom(pawn, coords, i) ==
  IF i > 6 THEN coords
  ELSE LET neighbor == Neighbor(pawn, i)
       IN  IF neighbor \in coords
           THEN RemoveAdjacentFrom(pawn,
                  RemoveAdjacentFrom(neighbor, coords \ {neighbor}, 1), i + 1)
           ELSE RemoveAdjacentFrom(pawn, coords, i + 1)

RemoveAdjacent(pawn, coords) == RemoveAdjacentFrom(pawn, coords, 1)

\* a flood that stops at the neighbours of the popped pawn
ConnectedFrom_M(popped, coords) ==
  (coords \ {popped}) \ {Neighbor(popped, i) : i \in 1..6} = {}

\* set.pop() takes an arbitrary element; popped is that element. The answer
\* is the same for every element popped: the removal floods the component
\* of popped, which is the whole set or not whichever pawn it starts from.
ConnectedFrom(popped, coords) == RemoveAdjacent(popped, coords \ {popped}) = {}

\* Connected that accepts every pawn set
Connected_M(coords) == TRUE

Connected(coords) ==
  IF coords = {} THEN TRUE
  ELSE ConnectedFrom(CHOOSE p \in coords : TRUE, coords)

\* TwoNeighborsEach that accepts every pawn set
TwoNeighborsEach_M(coords) == TRUE

TwoNeighborsEach(coords) ==
  \A pawn \in coords :
    Cardinality({i \in 1..6 : Neighbor(pawn, i) \in coords}) >= 2

\* the phase checks format their message with len(self.num_pawns), an int
ErrPhase == "TypeError: object of type 'int' has no len()"
Ok == "ok"

CoordsOf(ps) == {PawnToCoord(ps[i]) : i \in 1..Len(ps)}

\* P1Moves that places a pawn of the colour not on turn
P1Moves_M(ps, bt, np) ==
  IF Len(ps) >= np THEN [err |-> ErrPhase, moves |-> {}]
  ELSE [err |-> Ok,
        moves |-> {CoordToPawn(coord, ~bt) : coord \in PlayableSpots(CoordsOf(ps))}]

\* err: the outcome of the phase check; moves: what the generator yields
P1Moves(ps, bt, np) ==
  IF Len(ps) >= np THEN [err |-> ErrPhase, moves |-> {}]
  ELSE [err |-> Ok,
        moves |-> {CoordToPawn(coord, bt) : coord \in PlayableSpots(CoordsOf(ps))}]

\* MakeP1Move that leaves the turn with the player who placed
MakeP1Move_M(ps, bt, move) == [pawns |-> Append(ps, move), black_turn |-> bt]

MakeP1Move(ps, bt, move) == [pawns |-> Append(ps, move), black_turn |-> ~bt]

\* what the loop "for pawn in self.pawns" of P2Moves yields
P2Yield(ps, bt) ==
  LET coords == CoordsOf(ps)
  IN  UNION {
        LET pawn == ps[i]
            pawn_coord == PawnToCoord(pawn)
            rem_pawns == coords \ {pawn_coord}
        IN  IF pawn.black # bt THEN {}
            ELSE {<<pawn, CoordToPawn(coord, pawn.black)>> :
                    coord \in {c \in PlayableSpots(rem_pawns) :
                                 /\ c # pawn_coord
                                 /\ Connected(rem_pawns \cup {c})
                                 /\ TwoNeighborsEach(rem_pawns \cup {c})}}
        : i \in 1..Len(ps)}

\* err: the outcome of the phase check; moves: what the generator yields
P2Moves(ps, bt, np) ==
  IF Len(ps) # np THEN [err |-> ErrPhase, moves |-> {}]
  ELSE [err |-> Ok, moves |-> P2Yield(ps, bt)]

\* game.P2Moves() itself: P2Moves has a yield in its body, so the call runs
\* none of it, not even the phase check, and hands back a generator
P2MovesCall(ps, bt, np) == Ok

\* the errors the two phase checks are written to raise
ErrNotPhase1 == "RuntimeError: Not phase 1"
ErrNotPhase2 == "RuntimeError: Not phase 2"

\* list.remove(x): drops the first element equal to x
RemoveFirst(ps, x) ==
  LET k == CHOOSE i \in 1..Len(ps) : ps[i] = x /\ \A j \in 1..(i - 1) : ps[j] # x
  IN  [j \in 1..(Len(ps) - 1) |-> IF j < k THEN ps[j] ELSE ps[j + 1]]

\* MakeP2Move that leaves the relocated pawn on its old cell as well
MakeP2Move_M(ps, bt, move) ==
  [pawns |-> Append(ps, move[2]), black_turn |-> ~bt]

MakeP2Move(ps, bt, move) ==
  [pawns |-> Append(RemoveFirst(ps, move[1]), move[2]), black_turn |-> ~bt]

\* the test "len(self.pawns) == self.num_pawns" of Moves and MakeMove
IsPhase2(ps, np) == Len(ps) = np

Moves(ps, bt, np) == IF IsPhase2(ps, np) THEN P2Moves(ps, bt, np) ELSE P1Moves(ps, bt, np)

MakeMove(ps, bt, np, move) ==
  IF IsPhase2(ps, np) THEN MakeP2Move(ps, bt, move) ELSE MakeP1Move(ps, bt, move)

(* ------------------------- Onoro.__eq__ ------------------------------- *)

\* Onoro(num_pawns, pawns, black_turn)
Game(ps, bt, np) == [pawns |-> ps, black_turn |-> bt, num_pawns |-> np]

\* min() of the pawns' x or y finds no pawn
ErrEmptyMin == "ValueError: min() arg is an empty sequence"

\* "expected not in other.pawns"
InList(x, ps) == \E j \in 1..Len(ps) : ps[j] = x

\* min((pawn.x for pawn in pawns)), min((pawn.y for pawn in pawns))
OffsetOf(ps) ==
  << CHOOSE m \in {ps[i].x : i \in 1..Len(ps)} : \A i \in 1..Len(ps) : m <= ps[i].x,
     CHOOSE m \in {ps[i].y : i \in 1..Len(ps)} : \A i \in 1..Len(ps) : m <= ps[i].y >>

\* __eq__ that compares the two pawn lists position by position
OnoroEq_MOrder(self, other) ==
  IF self.num_pawns # other.num_pawns THEN RetFalse
  ELSE IF self.black_turn # other.black_turn THEN RetFalse
  ELSE IF Len(self.pawns) # Len(other.pawns) THEN RetFalse
  ELSE IF Len(self.pawns) = 0 THEN ErrEmptyMin
  ELSE LET self_off == OffsetOf(self.pawns)
           other_off == OffsetOf(other.pawns)
       IN  IF \A i \in 1..Len(self.pawns) :
                LET pawn == self.pawns[i]
                    coord == PawnToCoord(pawn)
                    expected == CoordToPawn(CoordAdd(CoordSub(coord, self_off), other_off),
                                            pawn.black)
                IN  expected = other.pawns[i]
           THEN RetTrue ELSE RetFalse

\* __eq__ that looks for each pawn of self in other without the two offsets
OnoroEq_MOffset(self, other) ==
  IF self.num_pawns # other.num_pawns THEN RetFalse
  ELSE IF self.black_turn # other.black_turn THEN RetFalse
  ELSE IF Len(self.pawns) # Len(other.pawns) THEN RetFalse
  ELSE IF Len(self.pawns) = 0 THEN ErrEmptyMin
  ELSE IF \A i \in 1..Len(self.pawns) : InList(self.pawns[i], other.pawns)
       THEN RetTrue ELSE RetFalse

\* __eq__ whose loop looks for the shifted cell in other, whatever its colour
OnoroEq_MColour(self, other) ==
  IF self.num_pawns # other.num_pawns THEN RetFalse
  ELSE IF self.black_turn # other.black_turn THEN RetFalse
  ELSE IF Len(self.pawns) # Len(other.pawns) THEN RetFalse
  ELSE IF Len(self.pawns) = 0 THEN ErrEmptyMin
  ELSE LET self_off == OffsetOf(self.pawns)
           other_off == OffsetOf(other.pawns)
       IN  IF \A i \in 1..Len(self.pawns) :
                LET coord == PawnToCoord(self.pawns[i])
                    expected == CoordAdd(CoordSub(coord, self_off), other_off)
                IN  expected \in CoordsOf(other.pawns)
           THEN RetTrue ELSE RetFalse

\* self == other: "True", "False", or the error min() raises on no pawns
OnoroEq(self, other) ==
  IF self.num_pawns # other.num_pawns THEN RetFalse
  ELSE IF self.black_turn # other.black_turn THEN RetFalse
  ELSE IF Len(self.pawns) # Len(other.pawns) THEN RetFalse
  ELSE IF Len(self.pawns) = 0 THEN ErrEmptyMin
  ELSE LET self_off == OffsetOf(self.pawns)
           other_off == OffsetOf(other.pawns)
       IN  IF \A i \in 1..Len(self.pawns) :
                LET pawn == self.pawns[i]
                    coord == PawnToCoord(pawn)
                    expected == CoordToPawn(CoordAdd(CoordSub(coord, self_off), other_off),
                                            pawn.black)
                IN  InList(expected, other.pawns)
           THEN RetTrue ELSE RetFalse

(* ------------------------- Onoro.game_diff ---------------------------- *)

\* the offsets game_diff tries, in its order
DiffOffsets ==
  << <<0, 0>>, <<1, 0>>, <<1, 1>>, <<0, 1>>, <<-1, 0>>, <<-1, -1>>, <<0, -1>> >>

\* what stands for None in old and new
NoPawn == [x |-> 0, y |-> 0, black |-> FALSE]

ErrCouldNotHaveComeFrom == "RuntimeError: game state could not have come from"

\* one pass of the loop over the offsets: the pawns of self, moved by m - min,
\* that diff does not hold, and the pawns of diff, moved back, that self does
\* not hold; new_pawn and old_pawn are the last such pawn of either list
DiffAt(self, diff, offset) ==
  LET min == OffsetOf(self.pawns)
      m == CoordAdd(OffsetOf(diff.pawns), offset)
      there(i) == CoordToPawn(CoordAdd(CoordSub(PawnToCoord(self.pawns[i]), min), m),
                              self.pawns[i].black)
      here(i) == CoordToPawn(CoordAdd(CoordSub(PawnToCoord(diff.pawns[i]), m), min),
                             diff.pawns[i].black)
      news == {i \in 1..Len(self.pawns) : ~InList(there(i), diff.pawns)}
      olds == {i \in 1..Len(diff.pawns) : ~InList(here(i), self.pawns)}
  IN  [n_new |-> Cardinality(news),
       n_old |-> Cardinality(olds),
       new_pawn |-> IF news = {} THEN NoPawn
                    ELSE there(CHOOSE i \in news : \A j \in news : j <= i),
       old_pawn |-> IF olds = {} THEN NoPawn
                    ELSE here(CHOOSE i \in olds : \A j \in olds : j <= i)]

RECURSIVE game_diff_from(_, _, _)
game_diff_from(self, diff, k) ==
  IF k > Len(DiffOffsets) THEN [err |-> ErrCouldNotHaveComeFrom, old |-> NoPawn, new |-> NoPawn]
  ELSE LET d == DiffAt(self, diff, DiffOffsets[k])
       IN  IF d.n_new = 1 /\ d.n_old = 1
             THEN [err |-> Ok, old |-> d.old_pawn, new |-> d.new_pawn]
           ELSE IF d.n_new = 1 /\ d.n_old = 0
             THEN [err |-> Ok, old |-> NoPawn, new |-> d.new_pawn]
           ELSE game_diff_from(self, diff, k + 1)

\* self.game_diff(diff): err is Ok or the error raised; a pair (old, new) is
\* returned as old and new, a single pawn as new with old left None
game_diff(self, diff) ==
  IF Len(self.pawns) = 0 \/ Len(diff.pawns) = 0
    THEN [err |-> ErrEmptyMin, old |-> NoPawn, new |-> NoPawn]
  ELSE game_diff_from(self, diff, 1)

(* ------------------------- Onoro.__hash__ ----------------------------- *)

\* pawn_key without the factor num_pawns
pawn_key_M(pawn, off, np) == (pawn.x - off[1]) + (pawn.y - off[2])

\* pawn_key(pawn), off the least x and y of the pawns
pawn_key(pawn, off, np) == (pawn.x - off[1]) + (pawn.y - off[2]) * np

\* sorted() is stable: pawn goes behind every pawn whose key is not greater
InsertByKey(sorted, pawn, off, np) ==
  LET k == Cardinality({i \in 1..Len(sorted) :
                         pawn_key(sorted[i], off, np) <= pawn_key(pawn, off, np)})
  IN  SubSeq(sorted, 1, k) \o <<pawn>> \o SubSeq(sorted, k + 1, Len(sorted))

\* sorted(ps[1..k], key=pawn_key)
RECURSIVE SortedByKey(_, _, _, _)
SortedByKey(ps, k, off, np) ==
  IF k = 0 THEN <<>>
  ELSE InsertByKey(SortedByKey(ps, k - 1, off, np), ps[k], off, np)

\* hash(self): err is Ok or the error min() raises on no pawns; hashed is the
\* tuple handed to hash(), which gives equal numbers for equal tuples
OnoroHash(self) ==
  IF Len(self.pawns) = 0 THEN [err |-> ErrEmptyMin, hashed |-> <<>>]
  ELSE LET off == OffsetOf(self.pawns)
           sorted == SortedByKey(self.pawns, Len(self.pawns), off, self.num_pawns)
       IN  [err |-> Ok,
            hashed |-> << [i \in 1..Len(sorted) |->
                             <<sorted[i].x - off[1], sorted[i].y - off[2], sorted[i].black>>],
                          self.black_turn, self.num_pawns >>]

(* ------- rotate_60, refl, invert_colors (as the specification has them) ------- *)

\* a step that maps (1,0) to (1,1) but leaves (0,1) in place
Rot60_M(c) == <<c[1], c[1] + c[2]>>

\* the 60 degree step: (1,0) -> (1,1) -> (0,1) -> (-1,0) -> (-1,-1) -> (0,-1) -> (1,0)
Rot60(c) == <<c[1] - c[2], c[1]>>

\* the fixed reflection: swaps (1,0) with (0,1) and keeps (1,1)
Refl(c) == <<c[2], c[1]>>

\* (<<>> \o makes the new pawn list a list of values, as the code's is)
rotate_60(g) ==
  Game(<<>> \o [i \in 1..Len(g.pawns) |->
          CoordToPawn(Rot60(PawnToCoord(g.pawns[i])), g.pawns[i].black)],
       g.black_turn, g.num_pawns)

refl(g) ==
  Game(<<>> \o [i \in 1..Len(g.pawns) |->
          CoordToPawn(Refl(PawnToCoord(g.pawns[i])), g.pawns[i].black)],
       g.black_turn, g.num_pawns)

\* swaps the colour of every pawn, and black_turn with it
invert_colors(g) ==
  Game(<<>> \o [i \in 1..Len(g.pawns) |-> [g.pawns[i] EXCEPT !.black = ~@]],
       ~g.black_turn, g.num_pawns)

\* "for i in range(k): game.rotate_60()"
RECURSIVE RotateTimes(_, _)
RotateTimes(g, k) == IF k <= 0 THEN g ELSE RotateTimes(rotate_60(g), k - 1)

\* the three steps with "for i in range(orientation + 1)"
SymmOps_M(game, color_invert, reflected, orientation) ==
  LET a == IF reflected THEN refl(game) ELSE game
      b == RotateTimes(a, orientation + 1)
  IN  IF color_invert THEN invert_colors(b) ELSE b

\* the three steps of apply_random_symm_ops once its choices are made:
\* refl() if reflected, rotate_60() orientation times, invert_colors() if
\* color_invert
SymmOps(game, color_invert, reflected, orientation) ==
  LET a == IF reflected THEN refl(game) ELSE game
      b == RotateTimes(a, orientation)
  IN  IF color_invert THEN invert_colors(b) ELSE b

\* one pass of the loop "for reflected in (True, False)" of each_symm on g:
\* g and its 5 further rotations are yielded, g is rotated a 6th time and
\* reflected, the same again; end is g as the pass leaves it
SymmPass(g) ==
  LET second == refl(RotateTimes(g, 6))
  IN  [images |-> [k \in 1..12 |-> IF k <= 6 THEN RotateTimes(g, k - 1)
                                     ELSE RotateTimes(second, k - 7)],
       end |-> refl(RotateTimes(second, 6))]

\* each_symm that makes the colour-inverted pass in every phase
each_symm_M(game) ==
  LET first == SymmPass(game)
  IN  first.images \o SymmPass(invert_colors(first.end)).images

\* the games each_symm yields, in order, each as it is when it is yielded
each_symm(game) ==
  LET first == SymmPass(game)
  IN  IF Len(game.pawns) = game.num_pawns
      THEN first.images \o SymmPass(invert_colors(first.end)).images
      ELSE first.images

\* "for g in each_symm(g1): if g == g2: return True"
are_symm_py(g1, g2) ==
  \E i \in 1..Len(each_symm(g1)) : OnoroEq(each_symm(g1)[i], g2) = RetTrue

(* --------------- serialize / deserialize (onoro.py) ------------------- *)

NumBlack(ps) == Cardinality({i \in 1..Len(ps) : ps[i].black})

NumWhite(ps) == Cardinality({i \in 1..Len(ps) : ~ps[i].black})

ErrFewerBlack == "RuntimeError: Fewer black pawns than white"
ErrTooManyBlack == "RuntimeError: Too many black pawns"
ErrTooManyPawns == "RuntimeError: Too many pawns"
ErrTurnNum == "RuntimeError: Turn num != num_pawns - 1"
ErrTurnOrder == "RuntimeError: Expect player on turn"
ErrFinished == "RuntimeError: Game state reports winner mismatch"

\* serialize of the older copy of the engine in init.py: finished=False
init_serialize(ps, bt, np) ==
  IF NumBlack(ps) < NumWhite(ps) THEN [err |-> ErrFewerBlack]
  ELSE IF NumBlack(ps) > NumWhite(ps) + 1 THEN [err |-> ErrTooManyBlack]
  ELSE IF Len(ps) > np THEN [err |-> ErrTooManyPawns]
  ELSE [err |-> Ok, pawns |-> ps, black_turn |-> bt,
        turn_num |-> Len(ps) - 1, finished |-> FALSE]

\* serialize that counts the turns from 1
serialize_M(ps, bt, np) ==
  IF NumBlack(ps) < NumWhite(ps) THEN [err |-> ErrFewerBlack]
  ELSE IF NumBlack(ps) > NumWhite(ps) + 1 THEN [err |-> ErrTooManyBlack]
  ELSE IF Len(ps) > np THEN [err |-> ErrTooManyPawns]
  ELSE LET finished == HasWinner(ps, bt, TRUE)
       IN  IF finished \notin {RetTrue, RetFalse} THEN [err |-> finished]
           ELSE [err |-> Ok, pawns |-> ps, black_turn |-> bt,
                 turn_num |-> Len(ps), finished |-> (finished = RetTrue)]

serialize(ps, bt, np) ==
  IF NumBlack(ps) < NumWhite(ps) THEN [err |-> ErrFewerBlack]
  ELSE IF NumBlack(ps) > NumWhite(ps) + 1 THEN [err |-> ErrTooManyBlack]
  ELSE IF Len(ps) > np THEN [err |-> ErrTooManyPawns]
  ELSE LET finished == HasWinner(ps, bt, TRUE)
       IN  IF finished \notin {RetTrue, RetFalse} THEN [err |-> finished]
           ELSE [err |-> Ok, pawns |-> ps, black_turn |-> bt,
                 turn_num |-> Len(ps) - 1, finished |-> (finished = RetTrue)]

\* deserialize that takes the finished flag of the record on trust
deserialize_M(gs, np, check_errors) ==
  IF check_errors /\ gs.turn_num # Len(gs.pawns) - 1 THEN [err |-> ErrTurnNum]
  ELSE IF /\ check_errors
          /\ gs.turn_num < np - 1
          /\ gs.black_turn # ((gs.turn_num % 2) = 1)
       THEN [err |-> ErrTurnOrder]
  ELSE [err |-> Ok, pawns |-> gs.pawns, black_turn |-> gs.black_turn, num_pawns |-> np]

deserialize(gs, np, check_errors) ==
  IF check_errors /\ gs.turn_num # Len(gs.pawns) - 1 THEN [err |-> ErrTurnNum]
  ELSE IF /\ check_errors
          /\ gs.turn_num < np - 1
          /\ gs.black_turn # ((gs.turn_num % 2) = 1)
       THEN [err |-> ErrTurnOrder]
  ELSE IF ~check_errors
       THEN [err |-> Ok, pawns |-> gs.pawns, black_turn |-> gs.black_turn, num_pawns |-> np]
  ELSE LET has == HasWinner(gs.pawns, gs.black_turn, check_errors)
       IN  IF has \notin {RetTrue, RetFalse} THEN [err |-> has]
           ELSE IF gs.finished # (has = RetTrue) THEN [err |-> ErrFinished]
           ELSE [err |-> Ok, pawns |-> gs.pawns, black_turn |-> gs.black_turn,
                 num_pawns |-> np]

(* --------------------- test_next_moves.py ----------------------------- *)

gen_starting_game ==
  << [x |-> 1, y |-> 1, black |-> TRUE],
     [x |-> 1, y |-> 2, black |-> FALSE],
     [x |-> 2, y |-> 2, black |-> TRUE] >>

NoCall == [op |-> "none"]

(* ------------------------- the game ----------------------------------- *)

Init ==
  /\ pawns = gen_starting_game
  /\ black_turn = FALSE
  /\ num_pawns \in 3..MaxNumPawns
  /\ nmoves = 0
  /\ ret = NoCall

\* game.MakeMove(move) for a move of game.Moves(), placement phase
PlaceStep ==
  /\ nmoves < MaxMoves
  /\ ~IsPhase2(pawns, num_pawns)
  /\ \E move \in Moves(pawns, black_turn, num_pawns).moves :
       LET g == MakeMove(pawns, black_turn, num_pawns, move)
       IN  /\ pawns' = g.pawns
           /\ black_turn' = g.black_turn
  /\ nmoves' = nmoves + 1
  /\ UNCHANGED <<num_pawns, ret>>

\* game.MakeMove(move) for a move of game.Moves(), relocation phase
RelocateStep ==
  /\ nmoves < MaxMoves
  /\ IsPhase2(pawns, num_pawns)
  /\ \E move \in Moves(pawns, black_turn, num_pawns).moves :
       LET g == MakeMove(pawns, black_turn, num_pawns, move)
       IN  /\ pawns' = g.pawns
           /\ black_turn' = g.black_turn
  /\ nmoves' = nmoves + 1
  /\ UNCHANGED <<num_pawns, ret>>

Next == PlaceStep \/ RelocateStep

Spec == Init /\ [][Next]_vars

(* ------------- the game as test_random_moves drives it ---------------- *)

\* "if game.HasWinner(): break", then game.MakeMove(random.choice(Moves()))
PlayPlace ==
  /\ HasWinner(pawns, black_turn, TRUE) = RetFalse
  /\ PlaceStep

PlayRelocate ==
  /\ HasWinner(pawns, black_turn, TRUE) = RetFalse
  /\ RelocateStep

NextPlay == PlayPlace \/ PlayRelocate

SpecPlay == Init /\ [][NextPlay]_vars

(* ------------------ what the claims speak about ----------------------- *)

Directions == {<<1, 0>>, <<1, 1>>, <<0, 1>>, <<-1, 0>>, <<-1, -1>>, <<0, -1>>}

Adjacent(a, b) == CoordSub(a, b) \in Directions

OccupiedNeighbours(c, cells) == {n \in cells : Adjacent(n, c)}

\* the cells reachable from the cells of S through adjacent cells of all
RECURSIVE Reach(_, _)
Reach(S, all) ==
  LET nxt == S \cup {c \in all : \E s \in S : Adjacent(c, s)}
  IN  IF nxt = S THEN S ELSE Reach(nxt, all)

OneComponent(cells) ==
  cells = {} \/ Reach({CHOOSE c \in cells : TRUE}, cells) = cells

EveryPawnTwoNeighbours(cells) ==
  \A c \in cells : Cardinality(OccupiedNeighbours(c, cells)) >= 2

MinOf(S) == CHOOSE m \in S : \A n \in S : m <= n

MaxOf(S) == CHOOSE m \in S : \A n \in S : m >= n

\* every cell that touches a cell of cells, and the cells themselves
Surroundings(cells) ==
  IF cells = {} THEN {}
  ELSE LET xs == {c[1] : c \in cells}
           ys == {c[2] : c \in cells}
       IN  ((MinOf(xs) - 1)..(MaxOf(xs) + 1)) \X ((MinOf(ys) - 1)..(MaxOf(ys) + 1))

PawnSet(ps) == {ps[i] : i \in 1..Len(ps)}

NoDuplicates(ps) ==
  \A i, j \in 1..Len(ps) : PawnToCoord(ps[i]) = PawnToCoord(ps[j]) => i = j

\* colour black holds four pawns in a row from some cell on
HoldsLine(ps, black) ==
  \E p \in PawnSet(ps) : \E d \in {<<1, 0>>, <<1, 1>>, <<0, 1>>} :
    \A k \in 0..3 :
      CoordToPawn(<<p.x + k * d[1], p.y + k * d[2]>>, black) \in PawnSet(ps)

\* C1: every state the game reaches by applying moves of Moves() with
\* MakeMove, in either phase, has its pawns in one connected component in
\* which every pawn has at least 2 occupied neighbours
C1_MovesKeepHive ==
  /\ OneComponent(CoordsOf(pawns))
  /\ EveryPawnTwoNeighbours(CoordsOf(pawns))

\* placements and then a relocation have been applied
C1_Witness ==
  /\ num_pawns > 3
  /\ Len(pawns) = num_pawns
  /\ nmoves > num_pawns - 3
  /\ OneComponent(CoordsOf(pawns))

\* the relocations the rules allow: a pawn of the player to move, to an empty
\* cell other than its own with 2 occupied neighbours once the pawn is lifted,
\* the pawns being one hive afterwards
LegalRelocations(ps, bt) ==
  LET cells == CoordsOf(ps)
  IN  UNION {
        {<<from, [x |-> dst[1], y |-> dst[2], black |-> from.black]>> :
           dst \in {c \in Surroundings(cells) :
                      LET src == <<from.x, from.y>>
                          after == (cells \ {src}) \cup {c}
                      IN  /\ c \notin cells
                          /\ c # src
                          /\ Cardinality(OccupiedNeighbours(c, cells \ {src})) >= 2
                          /\ OneComponent(after)
                          /\ EveryPawnTwoNeighbours(after)}}
        : from \in {p \in PawnSet(ps) : p.black = bt}}

\* C3: at the full pawn count P2Moves returns exactly the legal relocations,
\* and never relocates a pawn of the player not on turn
C3_P2MovesExact ==
  Len(pawns) = num_pawns =>
    LET r == P2Moves(pawns, black_turn, num_pawns)
    IN  /\ r.err = Ok
        /\ r.moves = LegalRelocations(pawns, black_turn)
        /\ \A m \in r.moves : m[1] \in PawnSet(pawns) /\ m[1].black = black_turn

\* a relocation phase state, reached by a relocation, where some relocations
\* are legal and a cell with 2 occupied neighbours is refused
C3_Witness ==
  /\ Len(pawns) = num_pawns
  /\ nmoves > num_pawns - 3
  /\ P2Moves(pawns, black_turn, num_pawns).moves # {}
  /\ \E i \in 1..Len(pawns) :
       /\ pawns[i].black = black_turn
       /\ \E c \in Surroundings(CoordsOf(pawns)) \ CoordsOf(pawns) :
            /\ Cardinality(OccupiedNeighbours(c, CoordsOf(pawns) \ {PawnToCoord(pawns[i])})) >= 2
            /\ <<pawns[i], CoordToPawn(c, black_turn)>>
                 \notin P2Moves(pawns, black_turn, num_pawns).moves

\* C4: when moves are applied only while HasWinner() is false, the player
\* about to move never holds four in a row: strict HasWinner never raises
\* 'current player winning', and a win it reports is the last mover's
C4_MoverNeverWinner ==
  /\ HasWinner(pawns, black_turn, TRUE) # ErrCurrentPlayerWinning
  /\ ~HoldsLine(pawns, black_turn)
  /\ HasWinner(pawns, black_turn, TRUE) = RetTrue => HoldsLine(pawns, ~black_turn)

\* a game that has been won
C4_Witness ==
  /\ nmoves > 0
  /\ HasWinner(pawns, black_turn, TRUE) = RetTrue
  /\ HoldsLine(pawns, ~black_turn)

\* C7: black pawns minus white pawns is 0 or 1, and serialize never fails
\* its colour balance checks
C7_ColourBalance ==
  LET black == Cardinality({i \in 1..Len(pawns) : pawns[i].black})
      white == Len(pawns) - black
  IN  /\ black - white \in {0, 1}
      /\ serialize(pawns, black_turn, num_pawns).err \notin {ErrFewerBlack, ErrTooManyBlack}

\* placements and a relocation have been applied and serialize succeeds
C7_Witness ==
  /\ num_pawns > 3
  /\ nmoves > num_pawns - 3
  /\ serialize(pawns, black_turn, num_pawns).err = Ok

\* C8: no two pawns share a cell, and PawnAt answers Empty, Black or White
\* for every cell
C8_NoSharedCell ==
  /\ NoDuplicates(pawns)
  /\ \A c \in Surroundings(CoordsOf(pawns)) : PawnAt(pawns, c) \in {EMPTY, BLACK, WHITE}

\* after a relocation PawnAt finds a pawn on the last cell moved to
C8_Witness ==
  /\ Len(pawns) = num_pawns
  /\ nmoves > num_pawns - 3
  /\ PawnAt(pawns, PawnToCoord(pawns[Len(pawns)])) \in {BLACK, WHITE}

\* C9: in the placement phase black_turn is (turn_num mod 2 = 1), and a record
\* serialize produces never fails the turn order check of deserialize
C9_TurnOrderForced ==
  /\ (Len(pawns) - 1 < num_pawns - 1) => (black_turn = (((Len(pawns) - 1) % 2) = 1))
  /\ LET gs == serialize(pawns, black_turn, num_pawns)
     IN  gs.err = Ok => deserialize(gs, num_pawns, TRUE).err # ErrTurnOrder

\* a placement phase state after two placements, which serialize and
\* deserialize accept
C9_Witness ==
  /\ Len(pawns) < num_pawns
  /\ nmoves >= 2
  /\ LET gs == serialize(pawns, black_turn, num_pawns)
     IN  gs.err = Ok /\ deserialize(gs, num_pawns, TRUE).err = Ok

\* C10: the pawn count never exceeds num_pawns; a move below num_pawns adds
\* exactly one pawn, a move at num_pawns keeps the count of each colour
C10_PhaseOrder ==
  /\ [](Len(pawns) <= num_pawns)
  /\ [][/\ Len(pawns) < num_pawns => Len(pawns') = Len(pawns) + 1
        /\ Len(pawns) = num_pawns =>
             /\ Len(pawns') = Len(pawns)
             /\ NumBlack(pawns') = NumBlack(pawns)
             /\ NumWhite(pawns') = NumWhite(pawns)]_vars

\* a game that went through placements and then a relocation
C10_Witness ==
  /\ num_pawns > 3
  /\ Len(pawns) = num_pawns
  /\ nmoves > num_pawns - 3

\* a move taken back: the placed pawn removed, or the relocated pawn put back
\* on its source cell, and the turn given back
Reversed(g, np, phase2, move) ==
  IF phase2
  THEN Game(Append(RemoveFirst(g.pawns, move[2]), move[1]), ~g.black_turn, np)
  ELSE Game(RemoveFirst(g.pawns, move), ~g.black_turn, np)

\* C11: applying any move of Moves() and then taking it back gives a state
\* that __eq__ finds equal to the state before the move, in both phases and
\* in both directions of the comparison
C11_MoveUndo ==
  LET before == Game(pawns, black_turn, num_pawns)
      phase2 == IsPhase2(pawns, num_pawns)
  IN  \A move \in Moves(pawns, black_turn, num_pawns).moves :
        LET g == MakeMove(pawns, black_turn, num_pawns, move)
            undone == Reversed(g, num_pawns, phase2, move)
        IN  /\ OnoroEq(undone, before) = RetTrue
            /\ OnoroEq(before, undone) = RetTrue

\* a relocation phase state reached by a relocation, with a relocation whose
\* taking back leaves the pawn list in another order than before
C11_Witness ==
  /\ Len(pawns) = num_pawns
  /\ nmoves > num_pawns - 3
  /\ \E move \in Moves(pawns, black_turn, num_pawns).moves :
       LET g == MakeMove(pawns, black_turn, num_pawns, move)
           undone == Reversed(g, num_pawns, TRUE, move)
       IN  /\ undone.pawns # pawns
           /\ OnoroEq(undone, Game(pawns, black_turn, num_pawns)) = RetTrue

\* C19: in a state without a winner the states that the moves of Moves()
\* lead to, each applied to a copy of the state, are pairwise unequal under
\* __eq__: two different moves never give the same position
C19_SuccessorsDiffer ==
  HasWinner(pawns, black_turn, TRUE) = RetFalse =>
    LET moves == Moves(pawns, black_turn, num_pawns).moves
        succ == [m \in moves |->
                   LET g == MakeMove(pawns, black_turn, num_pawns, m)
                   IN  Game(g.pawns, g.black_turn, num_pawns)]
    IN  \A m1, m2 \in moves :
          m1 # m2 => OnoroEq(succ[m1], succ[m2]) = RetFalse

\* a relocation phase state without a winner, reached by a relocation, with
\* relocations of two different pawns to choose from
C19_Witness ==
  /\ Len(pawns) = num_pawns
  /\ nmoves > num_pawns - 3
  /\ HasWinner(pawns, black_turn, TRUE) = RetFalse
  /\ \E m1, m2 \in Moves(pawns, black_turn, num_pawns).moves : m1[1] # m2[1]

(* ---------------- __eq__ on two states built by a caller ---------------- *)

\* most pawns of a state handed to __eq__
MaxEqPawns == 3

\* the cells the pawns of the first state stand on
EqCells == (0..1) \X (0..1)

\* how far the second state is shifted
EqShifts == {<<0, 0>>, <<2, -1>>}

\* the pawn lists of 1..MaxEqPawns pawns on distinct cells of EqCells
EqInputs ==
  UNION {{ps \in [1..n -> {CoordToPawn(c, b) : c \in EqCells, b \in BOOLEAN}] :
            \A i, j \in 1..n : PawnToCoord(ps[i]) = PawnToCoord(ps[j]) => i = j}
         : n \in 1..MaxEqPawns}

InitEq ==
  /\ pawns \in EqInputs
  /\ black_turn \in BOOLEAN
  /\ num_pawns = MaxEqPawns
  /\ nmoves = 0
  /\ ret = NoCall

\* the states a caller compares a state with: the state itself, its list
\* reversed, its rotated, reflected and colour-swapped images, the state with
\* one pawn recoloured, one pawn moved a cell on, or its last pawn missing,
\* each shifted; and the state with the other turn or another num_pawns
EqOthers(g) ==
  LET ps == g.pawns
      n == Len(ps)
      variants ==
        {ps, [i \in 1..n |-> ps[n + 1 - i]],
         rotate_60(g).pawns, refl(g).pawns, invert_colors(g).pawns}
        \cup {[ps EXCEPT ![i].black = ~@] : i \in 1..n}
        \cup {[ps EXCEPT ![i].x = @ + 1] : i \in 1..n}
        \cup (IF n > 1 THEN {SubSeq(ps, 1, n - 1)} ELSE {})
  IN  {Game([i \in 1..Len(v) |-> CoordToPawn(CoordAdd(PawnToCoord(v[i]), d), v[i].black)],
            g.black_turn, g.num_pawns) :
         v \in variants, d \in EqShifts}
      \cup {Game(ps, ~g.black_turn, g.num_pawns), Game(ps, g.black_turn, g.num_pawns + 1)}

\* game == other
CallEq ==
  /\ ret = NoCall
  /\ \E other \in EqOthers(Game(pawns, black_turn, num_pawns)) :
       ret' = [op |-> "__eq__", other |-> other,
               val |-> OnoroEq(Game(pawns, black_turn, num_pawns), other)]
  /\ UNCHANGED <<pawns, black_turn, num_pawns, nmoves>>

NextEq == CallEq

SpecEq == InitEq /\ [][NextEq]_vars

\* the (cell, colour) pairs of a pawn list, its least x and least y subtracted
Normalised(ps) ==
  LET mx == MinOf({p.x : p \in PawnSet(ps)})
      my == MinOf({p.y : p \in PawnSet(ps)})
  IN  {<<p.x - mx, p.y - my, p.black>> : p \in PawnSet(ps)}

\* C12: for two states without two pawns on one cell, __eq__ answers true
\* exactly if num_pawns, black_turn and the normalised sets of (cell, colour)
\* pairs agree, and false otherwise: true for every translate, false for a
\* rotated, reflected or recoloured image whose normalised set differs
C12_EqIsNormalisedSet ==
  (/\ ret.op = "__eq__"
   /\ NoDuplicates(pawns)
   /\ NoDuplicates(ret.other.pawns)) =>
    ret.val = IF /\ ret.other.num_pawns = num_pawns
                 /\ ret.other.black_turn = black_turn
                 /\ Normalised(ret.other.pawns) = Normalised(pawns)
              THEN RetTrue ELSE RetFalse

\* __eq__ has answered true on a shifted copy whose pawns come in another order
C12_Witness ==
  /\ ret.op = "__eq__"
  /\ ret.val = RetTrue
  /\ Len(pawns) = MaxEqPawns
  /\ OffsetOf(ret.other.pawns) # OffsetOf(pawns)
  /\ \E i \in 1..Len(pawns) :
       CoordSub(PawnToCoord(ret.other.pawns[i]), OffsetOf(ret.other.pawns))
         # CoordSub(PawnToCoord(pawns[i]), OffsetOf(pawns))

(* --------------- the queries, on states built by a caller -------------- *)

\* longest line of pawns a caller lays out
MaxLineLen == 4

\* n pawns of one colour from start on, along direction d
Line(start, d, n, black) ==
  [k \in 1..n |-> CoordToPawn(<<start[1] + (k - 1) * d[1], start[2] + (k - 1) * d[2]>>, black)]

\* where the second line of pawns starts: on the first line, beside it, or
\* ahead of it
SecondLineStarts == {<<0, 0>>, <<0, 1>>, <<2, 0>>}

\* Onoro(num_pawns, pawns, black_turn) accepts any pawn list: two lines of
\* pawns, in either order, that may cross or cover each other
LineInputs ==
  LET D == {<<1, 0>>, <<1, 1>>, <<0, 1>>}
      first == {Line(<<0, 0>>, d, n, b) : d \in D, n \in 2..MaxLineLen, b \in BOOLEAN}
      second == UNION {{Line(s, d, n, b) : d \in D, n \in 0..MaxLineLen, b \in BOOLEAN} :
                         s \in SecondLineStarts}
  IN  {l1 \o l2 : l1 \in first, l2 \in second} \cup {l2 \o l1 : l1 \in first, l2 \in second}

InitQuery ==
  /\ \/ /\ pawns = gen_starting_game
        /\ num_pawns \in 3..MaxNumPawns
     \/ /\ pawns \in LineInputs
        /\ num_pawns \in {Len(pawns), Len(pawns) + 1}
  /\ black_turn \in BOOLEAN
  /\ nmoves = 0
  /\ ret = NoCall

\* game.HasWinner(check_errors)
CallHasWinner ==
  /\ \E check_errors \in BOOLEAN :
       ret' = [op |-> "HasWinner", check_errors |-> check_errors,
               val |-> HasWinner(pawns, black_turn, check_errors)]
  /\ UNCHANGED <<pawns, black_turn, num_pawns, nmoves>>

\* list(game.P1Moves())
CallP1Moves ==
  /\ ret' = [op |-> "P1Moves", val |-> P1Moves(pawns, black_turn, num_pawns)]
  /\ UNCHANGED <<pawns, black_turn, num_pawns, nmoves>>

NextQuery == CallHasWinner \/ CallP1Moves

SpecQuery == InitQuery /\ [][NextQuery]_vars

\* it = game.P2Moves(); list(it)
CallP2Moves ==
  /\ ret = NoCall
  /\ ret' = [op |-> "P2Moves", call |-> P2MovesCall(pawns, black_turn, num_pawns),
             val |-> P2Moves(pawns, black_turn, num_pawns)]
  /\ UNCHANGED <<pawns, black_turn, num_pawns, nmoves>>

NextGen == CallP1Moves \/ CallP2Moves

SpecGen == InitQuery /\ [][NextGen]_vars

\* the empty cells with at least 2 occupied neighbours
CellsWithTwoNeighbours(cells) ==
  {c \in Surroundings(cells) : c \notin cells /\ Cardinality(OccupiedNeighbours(c, cells)) >= 2}

\* C2: below num_pawns P1Moves returns one move for each empty cell with at
\* least 2 occupied neighbours, a pawn of the colour of black_turn, and no
\* other move; from the starting position with num_pawns = 6, the white
\* placements at (0,1), (2,1) and (2,3)
C2_P1MovesExact ==
  (ret.op = "P1Moves" /\ Len(pawns) < num_pawns) =>
    LET cells == CellsWithTwoNeighbours(CoordsOf(pawns))
    IN  /\ ret.val.err = Ok
        /\ ret.val.moves = {[x |-> c[1], y |-> c[2], black |-> black_turn] : c \in cells}
        /\ Cardinality(ret.val.moves) = Cardinality(cells)
        /\ (pawns = gen_starting_game /\ ~black_turn /\ num_pawns = 6) =>
             ret.val.moves = {[x |-> 0, y |-> 1, black |-> FALSE],
                              [x |-> 2, y |-> 1, black |-> FALSE],
                              [x |-> 2, y |-> 3, black |-> FALSE]}

\* P1Moves has answered on the starting position with num_pawns = 6
C2_Witness ==
  /\ ret.op = "P1Moves"
  /\ pawns = gen_starting_game /\ ~black_turn /\ num_pawns = 6
  /\ Cardinality(ret.val.moves) = 3

\* C5: when the colour about to move holds four in a row, strict HasWinner
\* fails with an invariant violation error, whatever the other colour holds
\* and whatever the order of the pawn list (stated for the states without two
\* pawns on one cell, where no other error can come first)
C5_MoverLineRaises ==
  (/\ ret.op = "HasWinner"
   /\ ret.check_errors
   /\ NoDuplicates(pawns)
   /\ HoldsLine(pawns, black_turn)) =>
    ret.val = ErrCurrentPlayerWinning

\* C6: on a state without duplicates in which the mover holds no line,
\* HasWinner returns true exactly if some colour holds four in a row
C6_WinDetected ==
  (ret.op = "HasWinner" /\ NoDuplicates(pawns) /\ ~HoldsLine(pawns, black_turn)) =>
    ret.val = IF HoldsLine(pawns, ~black_turn) THEN RetTrue ELSE RetFalse

\* HasWinner has answered true on a line of exactly 4 pawns
C6_Witness ==
  /\ ret.op = "HasWinner"
  /\ ret.val = RetTrue
  /\ Len(pawns) = 4
  /\ NoDuplicates(pawns)
  /\ HoldsLine(pawns, ~black_turn)

\* C13: P1Moves at |pawns| >= num_pawns and P2Moves at |pawns| # num_pawns
\* fail at the call with the phase mismatch error their raise statements
\* name, and return no move
C13_PhaseMismatchAtCall ==
  /\ (ret.op = "P1Moves" /\ Len(pawns) >= num_pawns) =>
        (ret.val.err = ErrNotPhase1 /\ ret.val.moves = {})
  /\ (ret.op = "P2Moves" /\ Len(pawns) # num_pawns) =>
        (ret.call = ErrNotPhase2 /\ ret.val.moves = {})

(* ------------- MakeP1Move and MakeP2Move called by hand --------------- *)

\* number of moves a caller applies by hand along one behaviour
MaxApply == 2

\* game.MakeP1Move(move), in whatever phase the game is: the pawn handed in
\* is one of the mover's colour on a cell with 2 occupied neighbours
CallMakeP1Move ==
  /\ nmoves < MaxApply
  /\ \E coord \in PlayableSpots(CoordsOf(pawns)) :
       LET g == MakeP1Move(pawns, black_turn, CoordToPawn(coord, black_turn))
       IN  /\ pawns' = g.pawns
           /\ black_turn' = g.black_turn
  /\ nmoves' = nmoves + 1
  /\ ret' = [op |-> "MakeP1Move", err |-> Ok,
             before |-> Game(pawns, black_turn, num_pawns)]
  /\ UNCHANGED num_pawns

\* game.MakeP2Move(move), in whatever phase the game is: the move handed in
\* takes a pawn of the list to a cell with 2 occupied neighbours
CallMakeP2Move ==
  /\ nmoves < MaxApply
  /\ \E i \in 1..Len(pawns) : \E coord \in PlayableSpots(CoordsOf(pawns)) :
       LET g == MakeP2Move(pawns, black_turn, <<pawns[i], CoordToPawn(coord, pawns[i].black)>>)
       IN  /\ pawns' = g.pawns
           /\ black_turn' = g.black_turn
  /\ nmoves' = nmoves + 1
  /\ ret' = [op |-> "MakeP2Move", err |-> Ok,
             before |-> Game(pawns, black_turn, num_pawns)]
  /\ UNCHANGED num_pawns

NextApply == CallMakeP1Move \/ CallMakeP2Move

SpecApply == Init /\ [][NextApply]_vars

\* C14: MakeP1Move at |pawns| = num_pawns and MakeP2Move at |pawns| <
\* num_pawns fail with a phase mismatch error and leave pawns and black_turn
\* as they were, so that |pawns| never exceeds num_pawns
C14_WrongPhaseApplyFails ==
  /\ (ret.op = "MakeP1Move" /\ Len(ret.before.pawns) = num_pawns) =>
        /\ ret.err = ErrNotPhase1
        /\ pawns = ret.before.pawns
        /\ black_turn = ret.before.black_turn
  /\ (ret.op = "MakeP2Move" /\ Len(ret.before.pawns) < num_pawns) =>
        /\ ret.err = ErrNotPhase2
        /\ pawns = ret.before.pawns
        /\ black_turn = ret.before.black_turn
  /\ Len(pawns) <= num_pawns

(* ---------- serialize and deserialize on states built by a caller ------- *)

\* two lines of pawns, the second after the first
WireInputs ==
  LET D == {<<1, 0>>, <<1, 1>>, <<0, 1>>}
      first == {Line(<<0, 0>>, d, n, b) : d \in D, n \in 2..MaxLineLen, b \in BOOLEAN}
      second == UNION {{Line(s, d, n, b) : d \in D, n \in 0..MaxLineLen, b \in BOOLEAN} :
                         s \in SecondLineStarts}
  IN  {l1 \o l2 : l1 \in first, l2 \in second}

InitWire ==
  /\ pawns \in WireInputs
  /\ num_pawns \in {Len(pawns) - 1, Len(pawns), Len(pawns) + 1}
  /\ black_turn \in BOOLEAN
  /\ nmoves = 0
  /\ ret = NoCall

\* game.serialize()
CallSerialize ==
  /\ ret = NoCall
  /\ ret' = [op |-> "serialize", val |-> serialize(pawns, black_turn, num_pawns)]
  /\ UNCHANGED <<pawns, black_turn, num_pawns, nmoves>>

\* serialize() of the Onoro class of init.py
CallInitSerialize ==
  /\ ret = NoCall
  /\ ret' = [op |-> "init.serialize", val |-> init_serialize(pawns, black_turn, num_pawns)]
  /\ UNCHANGED <<pawns, black_turn, num_pawns, nmoves>>

\* deserialize(gs, num_pawns, check_errors) for a record gs that holds the
\* pawns and black_turn, a turn_num that is len - 1 or not, and either flag
CallDeserialize ==
  /\ ret = NoCall
  /\ \E turn_num \in {Len(pawns) - 1, Len(pawns)}, finished \in BOOLEAN, check_errors \in BOOLEAN :
       LET gs == [pawns |-> pawns, black_turn |-> black_turn,
                  turn_num |-> turn_num, finished |-> finished]
       IN  ret' = [op |-> "deserialize", gs |-> gs, check_errors |-> check_errors,
                   val |-> deserialize(gs, num_pawns, check_errors)]
  /\ UNCHANGED <<pawns, black_turn, num_pawns, nmoves>>

NextWire == CallSerialize \/ CallInitSerialize \/ CallDeserialize

SpecWire == InitWire /\ [][NextWire]_vars

\* serialize has failed
Fails(val) == val.err # Ok

\* one of the three checks serialize makes on the pawn counts fails
CountsRefused(ps, np) ==
  LET black == Cardinality({i \in 1..Len(ps) : ps[i].black})
      white == Len(ps) - black
  IN  black < white \/ black > white + 1 \/ Len(ps) > np

C16_DeserializeValidates ==
  (ret.op = "deserialize" /\ ret.check_errors /\ ret.val.err = Ok) =>
    /\ NumBlack(pawns) - NumWhite(pawns) \in {0, 1}
    /\ Len(pawns) <= num_pawns
    /\ NoDuplicates(pawns)
    /\ Len(pawns) < num_pawns => (black_turn = (((Len(pawns) - 1) % 2) = 1))

\* C17: with check_errors, deserialize fails whenever the finished flag of
\* the record differs from the win detection on its pawns (from what
\* HasWinner answers and, without two pawns on a cell, from whether a colour
\* holds four in a row); without check_errors it checks nothing and returns
\* the state of the record, whatever the record
C17_FinishedChecked ==
  ret.op = "deserialize" =>
    LET h == HasWinner(pawns, black_turn, FALSE)
    IN  /\ (ret.check_errors /\ h \in {RetTrue, RetFalse} /\ ret.gs.finished # (h = RetTrue)) =>
              ret.val.err # Ok
        /\ (/\ ret.check_errors
            /\ NoDuplicates(pawns)
            /\ ret.gs.finished # (HoldsLine(pawns, TRUE) \/ HoldsLine(pawns, FALSE))) =>
              ret.val.err # Ok
        /\ ~ret.check_errors =>
              ret.val = [err |-> Ok, pawns |-> pawns, black_turn |-> black_turn,
                         num_pawns |-> num_pawns]

\* deserialize has refused a record that passes the turn checks and claims a
\* win its pawns do not show
C17_Witness ==
  /\ ret.op = "deserialize"
  /\ ret.check_errors
  /\ ret.gs.finished
  /\ ~HoldsLine(pawns, TRUE) /\ ~HoldsLine(pawns, FALSE)
  /\ ret.val.err = ErrFinished

(* ------------------- coord_neighbors on its own ------------------------ *)

\* largest |x| and |y| of a coordinate handed to coord_neighbors
MaxCoord == 5

InitCoord ==
  /\ pawns = gen_starting_game
  /\ black_turn = FALSE
  /\ num_pawns = Len(gen_starting_game)
  /\ nmoves = 0
  /\ ret = NoCall

\* coord_neighbors(c)
CallCoordNeighbors ==
  /\ ret = NoCall
  /\ \E c \in (-MaxCoord..MaxCoord) \X (-MaxCoord..MaxCoord) :
       ret' = [op |-> "coord_neighbors", arg |-> c, val |-> coord_neighbors(c)]
  /\ UNCHANGED <<pawns, black_turn, num_pawns, nmoves>>

NextCoord == CallCoordNeighbors

SpecCoord == InitCoord /\ [][NextCoord]_vars

\* C18: coord_neighbors(c) lists 6 distinct coordinates, none of them c, and
\* n is among the neighbours of c exactly if c is among the neighbours of n
C18_NeighboursSymmetric ==
  ret.op = "coord_neighbors" =>
    LET c == ret.arg
        of_c == {ret.val[i] : i \in 1..Len(ret.val)}
    IN  /\ Len(ret.val) = 6
        /\ Cardinality(of_c) = 6
        /\ c \notin of_c
        /\ \A n \in ((c[1] - 2)..(c[1] + 2)) \X ((c[2] - 2)..(c[2] + 2)) :
             LET nn == coord_neighbors(n)
             IN  (n \in of_c) <=> (c \in {nn[i] : i \in 1..Len(nn)})

\* coord_neighbors has answered for a cell off the origin, and its fifth
\* neighbour lists that cell as its second
C18_Witness ==
  /\ ret.op = "coord_neighbors"
  /\ ret.arg = <<2, -3>>
  /\ ret.val[5] = <<1, -4>>
  /\ coord_neighbors(ret.val[5])[2] = ret.arg

(* ------------- a game, then one of the 24 symmetry transforms ---------- *)

\* number of moves played before the transform
MaxSymmMoves == 3

SymmPlace ==
  /\ ret = NoCall
  /\ nmoves < MaxSymmMoves
  /\ PlaceStep

SymmRelocate ==
  /\ ret = NoCall
  /\ nmoves < MaxSymmMoves
  /\ RelocateStep

\* game.refl() or not, game.rotate_60() 0..5 times, game.invert_colors() or
\* not, on the game as played so far
CallSymmOps ==
  /\ ret = NoCall
  /\ \E color_invert \in BOOLEAN, reflected \in BOOLEAN, orientation \in 0..5 :
       LET g == SymmOps(Game(pawns, black_turn, num_pawns), color_invert, reflected, orientation)
       IN  /\ pawns' = g.pawns
           /\ black_turn' = g.black_turn
           /\ ret' = [op |-> "symm", color_invert |-> color_invert,
                      reflected |-> reflected, orientation |-> orientation,
                      before |-> Game(pawns, black_turn, num_pawns)]
  /\ UNCHANGED <<num_pawns, nmoves>>

NextSymm == SymmPlace \/ SymmRelocate \/ CallSymmOps

SpecSymm == Init /\ [][NextSymm]_vars

\* the game-state invariants: colour balance, at most num_pawns pawns, one
\* pawn per cell, the turn order of the placement phase, no line held by the
\* player to move; and serialize and deserialize accept the state
ValidState(g) ==
  /\ NumBlack(g.pawns) - NumWhite(g.pawns) \in {0, 1}
  /\ Len(g.pawns) <= g.num_pawns
  /\ NoDuplicates(g.pawns)
  /\ Len(g.pawns) < g.num_pawns => (g.black_turn = (((Len(g.pawns) - 1) % 2) = 1))
  /\ ~HoldsLine(g.pawns, g.black_turn)
  /\ LET gs == serialize(g.pawns, g.black_turn, g.num_pawns)
     IN  gs.err = Ok /\ deserialize(gs, g.num_pawns, TRUE).err = Ok

\* the transform that takes back SymmOps: the colours swapped back, the
\* rotation completed to 6 steps, the reflection made again
SymmBack(g, color_invert, reflected, orientation) ==
  LET a == IF color_invert THEN invert_colors(g) ELSE g
      b == RotateTimes(a, (6 - orientation) % 6)
  IN  IF reflected THEN refl(b) ELSE b

\* C20 as the specification has it: each of the 24 transforms takes a valid
\* state to a state that keeps the game-state invariants, and the transform
\* followed by its inverse gives back the state exactly
C20_AllTransformsValid ==
  ret.op = "symm" =>
    /\ ValidState(Game(pawns, black_turn, num_pawns))
    /\ SymmBack(Game(pawns, black_turn, num_pawns),
                ret.color_invert, ret.reflected, ret.orientation) = ret.before

\* C20: each of the 12 transforms without colour swap takes a valid state to
\* a valid state, and so does each of the 12 with colour swap when the board
\* is full and holds as many black as white pawns; each of the 24 followed by
\* its inverse gives back the state exactly, rotate_60 having order 6, refl
\* and invert_colors being involutions
C20_SymmetryClosure ==
  ret.op = "symm" =>
    LET now == Game(pawns, black_turn, num_pawns)
        full == /\ Len(ret.before.pawns) = num_pawns
                /\ NumBlack(ret.before.pawns) = NumWhite(ret.before.pawns)
    IN  /\ ValidState(ret.before)
        /\ (~ret.color_invert \/ full) => ValidState(now)
        /\ SymmBack(now, ret.color_invert, ret.reflected, ret.orientation) = ret.before
        /\ RotateTimes(now, 6) = now
        /\ \A k \in 1..5 : RotateTimes(now, k) # now
        /\ refl(refl(now)) = now
        /\ invert_colors(invert_colors(now)) = now

\* a full board of as many black as white pawns, reached by a relocation, has
\* been reflected, rotated 5 times and colour-swapped
C20_Witness ==
  /\ ret.op = "symm"
  /\ ret.color_invert /\ ret.reflected /\ ret.orientation = 5
  /\ Len(pawns) = num_pawns
  /\ nmoves > num_pawns - 3
  /\ NumBlack(pawns) = NumWhite(pawns)
  /\ ValidState(Game(pawns, black_turn, num_pawns))

(* ------- Moves and HasWinner on a state and on an image of it ---------- *)

\* how far the translated image is shifted
ImageShift == <<3, -2>>

\* a line of pawns along (1, 0) and a second line, on no common cell
ImageInputs ==
  LET D == {<<1, 0>>, <<1, 1>>, <<0, 1>>}
      first == {Line(<<0, 0>>, <<1, 0>>, n, b) : n \in 2..MaxLineLen, b \in BOOLEAN}
      second == UNION {{Line(s, d, n, b) : d \in D, n \in 0..MaxLineLen, b \in BOOLEAN} :
                         s \in SecondLineStarts}
  IN  {ps \in {l1 \o l2 : l1 \in first, l2 \in second} :
         \A i, j \in 1..Len(ps) : PawnToCoord(ps[i]) = PawnToCoord(ps[j]) => i = j}

InitImage ==
  /\ \/ /\ pawns = gen_starting_game
        /\ num_pawns \in 3..MaxNumPawns
     \/ /\ pawns \in ImageInputs
        /\ num_pawns \in {Len(pawns), Len(pawns) + 1}
  /\ black_turn \in BOOLEAN
  /\ nmoves = 0
  /\ ret = NoCall

\* where a cell goes under the translation, the rotation or the reflection
ImageOfCoord(c, kind) ==
  IF kind = "translate" THEN CoordAdd(c, ImageShift)
  ELSE IF kind = "rotate_60" THEN Rot60(c)
  ELSE Refl(c)

ImageOfPawn(p, kind) == CoordToPawn(ImageOfCoord(PawnToCoord(p), kind), p.black)

\* Onoro(num_pawns, the pawns of game carried over, black_turn)
ImageOfGame(game, kind) ==
  Game([i \in 1..Len(game.pawns) |-> ImageOfPawn(game.pawns[i], kind)],
       game.black_turn, game.num_pawns)

\* list(game.Moves()) and game.HasWinner(), then the same on an image of game
CallOnImage ==
  /\ ret = NoCall
  /\ \E kind \in {"translate", "rotate_60", "refl"} :
       LET image == ImageOfGame(Game(pawns, black_turn, num_pawns), kind)
       IN  ret' = [op |-> "image", kind |-> kind, image |-> image,
                   moves |-> Moves(pawns, black_turn, num_pawns),
                   has |-> HasWinner(pawns, black_turn, TRUE),
                   image_moves |-> Moves(image.pawns, image.black_turn, image.num_pawns),
                   image_has |-> HasWinner(image.pawns, image.black_turn, TRUE)]
  /\ UNCHANGED <<pawns, black_turn, num_pawns, nmoves>>

NextImage == CallOnImage

SpecImage == InitImage /\ [][NextImage]_vars

\* a placement, or both pawns of a relocation, carried over to the image
ImageOfMove(m, phase2, kind) ==
  IF phase2 THEN <<ImageOfPawn(m[1], kind), ImageOfPawn(m[2], kind)>>
  ELSE ImageOfPawn(m, kind)

\* C21: on the image of a state under a translation, the 60 degree rotation
\* or the reflection, Moves() returns exactly the images of the moves of the
\* state, as many as there, and HasWinner() answers as on the state
C21_MovesFollowImage ==
  ret.op = "image" =>
    LET phase2 == IsPhase2(pawns, num_pawns)
    IN  /\ ret.image_moves.err = ret.moves.err
        /\ ret.image_moves.moves =
             {ImageOfMove(m, phase2, ret.kind) : m \in ret.moves.moves}
        /\ Cardinality(ret.image_moves.moves) = Cardinality(ret.moves.moves)
        /\ ret.image_has = ret.has

\* a rotated full board with relocations to choose from; and on its side of
\* the board a line of 4 that HasWinner reports on the rotated image as well
C21_Witness ==
  /\ ret.op = "image"
  /\ ret.kind = "rotate_60"
  /\ Len(pawns) = num_pawns
  /\ ret.moves.moves # {}
  /\ ret.image_moves.moves # ret.moves.moves
  /\ ret.has = RetTrue
  /\ ret.image_has = RetTrue

(* ------------- a game, then are_symm_py against another state ---------- *)

\* the states g2 a game is compared with: its images under SymmOps, shifted,
\* its list reversed, and the game with one pawn recoloured or moved a cell on
SymmOthers(g) ==
  LET n == Len(g.pawns)
      images == {SymmOps(g, color_invert, reflected, orientation) :
                   color_invert \in BOOLEAN, reflected \in BOOLEAN, orientation \in {0, 1, 4}}
      near == {Game([g.pawns EXCEPT ![i].black = ~@], g.black_turn, g.num_pawns) : i \in {1, n}}
              \cup {Game([g.pawns EXCEPT ![n].x = @ + 1], g.black_turn, g.num_pawns),
                    Game([i \in 1..n |-> g.pawns[n + 1 - i]], g.black_turn, g.num_pawns)}
  IN  {ImageOfGame(o, "translate") : o \in images} \cup near

\* are_symm_py(game, g2)
CallAreSymm ==
  /\ ret = NoCall
  /\ \E g2 \in SymmOthers(Game(pawns, black_turn, num_pawns)) :
       ret' = [op |-> "are_symm_py", g2 |-> g2,
               images |-> each_symm(Game(pawns, black_turn, num_pawns)),
               val |-> are_symm_py(Game(pawns, black_turn, num_pawns), g2)]
  /\ UNCHANGED <<pawns, black_turn, num_pawns, nmoves>>

\* moves played before the comparison
MaxCandMoves == 2

CandPlace == ret = NoCall /\ nmoves < MaxCandMoves /\ PlaceStep

CandRelocate == ret = NoCall /\ nmoves < MaxCandMoves /\ RelocateStep

NextCand == CandPlace \/ CandRelocate \/ CallAreSymm

SpecCand == Init /\ [][NextCand]_vars

\* the 12 images of g under the rotations and the reflection
RotReflImages(g) ==
  {RotateTimes(x, k) : x \in {g, refl(g)}, k \in 0..5}

\* g and h hold the same turn, num_pawns and pawns up to a translation
SamePosition(g, h) ==
  /\ g.num_pawns = h.num_pawns
  /\ g.black_turn = h.black_turn
  /\ Normalised(g.pawns) = Normalised(h.pawns)

\* C22: each_symm yields 12 games, the images under rotation and reflection,
\* below num_pawns, and 24, those 12 and their colour inversions, on a full
\* board; colour-inverted images are yielded only on a full board; and
\* are_symm_py(g1, g2) is true exactly if g2 is one of the yielded images up
\* to a translation
C22_CandidateSet ==
  ret.op = "are_symm_py" =>
    LET g1 == Game(pawns, black_turn, num_pawns)
        yielded == {ret.images[i] : i \in 1..Len(ret.images)}
        plain == RotReflImages(g1)
        inverted == {invert_colors(x) : x \in plain}
    IN  /\ Len(pawns) < num_pawns => (Len(ret.images) = 12 /\ yielded = plain)
        /\ Len(pawns) = num_pawns =>
             (Len(ret.images) = 24 /\ yielded = plain \cup inverted)
        /\ (\E x \in yielded : x.black_turn # black_turn) => Len(pawns) = num_pawns
        /\ ret.val <=> (\E x \in yielded : SamePosition(x, ret.g2))
        /\ Len(pawns) < num_pawns =>
             (ret.val <=> (\E x \in plain : SamePosition(x, ret.g2)))

\* after moves on a full board are_symm_py has found the board symmetric to
\* a shifted colour-inverted image of it that __eq__ alone finds different
C22_Witness ==
  /\ ret.op = "are_symm_py"
  /\ nmoves > 0
  /\ Len(pawns) = num_pawns
  /\ Len(ret.images) = 24
  /\ ret.val
  /\ ret.g2.black_turn # black_turn
  /\ OnoroEq(Game(pawns, black_turn, num_pawns), ret.g2) = RetFalse

(* ------------- a game, then its moves enumerated twice ----------------- *)

\* number of choices set.pop() is given in one enumeration
MaxPop == 3

CoordLess(a, b) == a[1] < b[1] \/ (a[1] = b[1] /\ a[2] < b[2])

\* pawns.pop() of Connected: which element a set hands out is not fixed;
\* k picks it, the element with k (mod the size) elements before it
PopAt(coords, k) ==
  CHOOSE p \in coords :
    Cardinality({q \in coords : CoordLess(q, p)}) = k % Cardinality(coords)

\* Connected with the pop decided by k
ConnectedPop(coords, k) ==
  IF coords = {} THEN TRUE ELSE ConnectedFrom(PopAt(coords, k), coords)

\* what the generator of P2Moves yields when every pop is decided by k
P2YieldPop(ps, bt, k) ==
  LET coords == CoordsOf(ps)
  IN  UNION {
        LET pawn == ps[i]
            pawn_coord == PawnToCoord(pawn)
            rem_pawns == coords \ {pawn_coord}
        IN  IF pawn.black # bt THEN {}
            ELSE {<<pawn, CoordToPawn(coord, pawn.black)>> :
                    coord \in {c \in PlayableSpots(rem_pawns) :
                                 /\ c # pawn_coord
                                 /\ ConnectedPop(rem_pawns \cup {c}, k)
                                 /\ TwoNeighborsEach(rem_pawns \cup {c})}}
        : i \in 1..Len(ps)}

P2MovesPop(ps, bt, np, k) ==
  IF Len(ps) # np THEN [err |-> ErrPhase, moves |-> {}]
  ELSE [err |-> Ok, moves |-> P2YieldPop(ps, bt, k)]

\* list(game.<op>()) for op one of Moves, P1Moves, P2Moves
Enumerate(op, ps, bt, np, k) ==
  CASE op = "P1Moves" -> P1Moves(ps, bt, np)
    [] op = "P2Moves" -> P2MovesPop(ps, bt, np, k)
    [] OTHER -> IF IsPhase2(ps, np) THEN P2MovesPop(ps, bt, np, k)
                ELSE P1Moves(ps, bt, np)

\* first = list(game.<op>()); second = list(game.<op>()): none of the three
\* nor what they call assigns to a field of game; before and after are the
\* game as it is when the first call starts and when the second has ended
CallEnumerateTwice ==
  /\ ret = NoCall
  /\ UNCHANGED <<pawns, black_turn, num_pawns, nmoves>>
  /\ \E op \in {"Moves", "P1Moves", "P2Moves"}, k1 \in 0..(MaxPop - 1), k2 \in 0..(MaxPop - 1) :
       ret' = [op |-> op, k1 |-> k1, k2 |-> k2,
               before |-> Game(pawns, black_turn, num_pawns),
               after |-> Game(pawns', black_turn', num_pawns'),
               first |-> Enumerate(op, pawns, black_turn, num_pawns, k1),
               second |-> Enumerate(op, pawns', black_turn', num_pawns', k2)]

\* moves played before the enumerations
MaxFrameMoves == 3

FramePlace == ret = NoCall /\ nmoves < MaxFrameMoves /\ PlaceStep

FrameRelocate == ret = NoCall /\ nmoves < MaxFrameMoves /\ RelocateStep

NextFrame == FramePlace \/ FrameRelocate \/ CallEnumerateTwice

SpecFrame == Init /\ [][NextFrame]_vars

\* C23: enumerating Moves(), P1Moves() or P2Moves() to the end leaves pawns,
\* black_turn and num_pawns as they were, and a second enumeration on the
\* unchanged state gives the same outcome and the same set of moves as the
\* first, whichever pawns the two enumerations pop in Connected
C23_EnumerationIsPure ==
  ret.op \in {"Moves", "P1Moves", "P2Moves"} =>
    /\ ret.after = ret.before
    /\ ret.after = Game(pawns, black_turn, num_pawns)
    /\ ret.second.err = ret.first.err
    /\ ret.second.moves = ret.first.moves

\* after a move, a full board whose relocations were enumerated twice with
\* different pops in Connected, and some relocation was refused as it left
\* the pawns in two groups
C23_Witness ==
  /\ ret.op = "Moves"
  /\ nmoves > 0
  /\ Len(pawns) = num_pawns
  /\ ret.first.moves # {}
  /\ \E i \in 1..Len(pawns) :
       LET rem_pawns == CoordsOf(pawns) \ {PawnToCoord(pawns[i])}
       IN  /\ pawns[i].black = black_turn
           /\ \E c \in PlayableSpots(rem_pawns) :
                /\ ~OneComponent(rem_pawns \cup {c})
                /\ PopAt(rem_pawns \cup {c}, ret.k1) # PopAt(rem_pawns \cup {c}, ret.k2)

(* ------------- a move, then game_diff against the state before -------- *)

\* moves played
MaxDiffMoves == 4

\* a move of Moves() as game_diff would return it
MoveAsDiff(move, phase2) ==
  IF phase2 THEN [err |-> Ok, old |-> move[1], new |-> move[2]]
  ELSE [err |-> Ok, old |-> NoPawn, new |-> move]

\* the outcome of after = deepcopy(game); after.MakeMove(move);
\* after.game_diff(game)
DiffAfter(move, phase2) ==
  LET g == MakeMove(pawns, black_turn, num_pawns, move)
  IN  [op |-> "game_diff", phase2 |-> phase2, move |-> MoveAsDiff(move, phase2),
       val |-> game_diff(Game(g.pawns, g.black_turn, num_pawns),
                         Game(pawns, black_turn, num_pawns))]

\* a placement of game.Moves() made on a copy, game_diff of the copy against
\* game; the play goes on from the copy
DiffPlace ==
  /\ nmoves < MaxDiffMoves
  /\ ~IsPhase2(pawns, num_pawns)
  /\ \E move \in Moves(pawns, black_turn, num_pawns).moves :
       LET g == MakeMove(pawns, black_turn, num_pawns, move)
       IN  /\ pawns' = g.pawns
           /\ black_turn' = g.black_turn
           /\ ret' = DiffAfter(move, FALSE)
  /\ nmoves' = nmoves + 1
  /\ UNCHANGED num_pawns

\* the same for a relocation
DiffRelocate ==
  /\ nmoves < MaxDiffMoves
  /\ IsPhase2(pawns, num_pawns)
  /\ \E move \in Moves(pawns, black_turn, num_pawns).moves :
       LET g == MakeMove(pawns, black_turn, num_pawns, move)
       IN  /\ pawns' = g.pawns
           /\ black_turn' = g.black_turn
           /\ ret' = DiffAfter(move, TRUE)
  /\ nmoves' = nmoves + 1
  /\ UNCHANGED num_pawns

NextDiff == DiffPlace \/ DiffRelocate

SpecDiff == Init /\ [][NextDiff]_vars

\* C24: for every move of Moves(), game_diff of the state after the move
\* against the state before it does not raise and returns that move: the
\* placed pawn in phase 1, the pair (removed pawn, placed pawn) in phase 2
C24_DiffReturnsMove ==
  ret.op = "game_diff" => ret.val = ret.move

(* ------------- is the player to move ever without a move --------------- *)

\* C25 as stated: in every state of the play without a winner Moves()
\* returns at least one move, in phase 1 and in phase 2
C25_NeverStuck ==
  HasWinner(pawns, black_turn, TRUE) = RetFalse =>
    Moves(pawns, black_turn, num_pawns).moves # {}

\* C25 (amended): in every state of the play without a winner and with fewer
\* than num_pawns pawns Moves() does not fail and returns at least one move;
\* a state without a winner and without a move is a full board
C25_PlacementNeverStuck ==
  (HasWinner(pawns, black_turn, TRUE) = RetFalse /\ Len(pawns) < num_pawns) =>
    /\ Moves(pawns, black_turn, num_pawns).err = Ok
    /\ Moves(pawns, black_turn, num_pawns).moves # {}

\* two placements into the play, no winner, pawns still to place: there are
\* placements, and one of them fills the board
C25_Witness ==
  /\ nmoves >= 2
  /\ Len(pawns) = num_pawns - 1
  /\ HasWinner(pawns, black_turn, TRUE) = RetFalse
  /\ Moves(pawns, black_turn, num_pawns).moves # {}

(* ------------- a game, then its hash and that of another state -------- *)

\* moves played before the hashes are taken
MaxHashMoves == 3

HashPlace == ret = NoCall /\ nmoves < MaxHashMoves /\ PlaceStep

HashRelocate == ret = NoCall /\ nmoves < MaxHashMoves /\ RelocateStep

\* the states a game is compared with: its pawn list reversed, started at
\* another pawn, or with two neighbours of the list swapped, each shifted;
\* and, shifted, the game rotated or with one pawn recoloured
HashOthers(g) ==
  LET ps == g.pawns
      n == Len(ps)
      orders ==
        {[i \in 1..n |-> ps[n + 1 - i]]}
        \cup {[i \in 1..n |-> ps[((i + j - 1) % n) + 1]] : j \in 0..(n - 1)}
        \cup {[i \in 1..n |-> IF i = j THEN ps[j + 1] ELSE IF i = j + 1 THEN ps[j] ELSE ps[i]]
                : j \in 1..(n - 1)}
      variants == orders \cup {rotate_60(g).pawns, [ps EXCEPT ![n].black = ~@]}
  IN  {Game(<<>> \o [i \in 1..n |-> CoordToPawn(CoordAdd(PawnToCoord(v[i]), d), v[i].black)],
            g.black_turn, g.num_pawns) :
         v \in variants, d \in EqShifts}

\* game == other, hash(game), hash(other)
CallHash ==
  /\ ret = NoCall
  /\ \E other \in HashOthers(Game(pawns, black_turn, num_pawns)) :
       ret' = [op |-> "__hash__", other |-> other,
               eq |-> OnoroEq(Game(pawns, black_turn, num_pawns), other),
               hash |-> OnoroHash(Game(pawns, black_turn, num_pawns)),
               other_hash |-> OnoroHash(other)]
  /\ UNCHANGED <<pawns, black_turn, num_pawns, nmoves>>

NextHash == HashPlace \/ HashRelocate \/ CallHash

SpecHash == Init /\ [][NextHash]_vars

\* C26: two states that are equal under __eq__ have equal hashes, whatever
\* the order of their pawn lists and wherever they lie on the board, and the
\* sort key (x - minx) + (y - miny) * num_pawns is different for different
\* pawns of the state
C26_EqualStatesHashEqual ==
  ret.op = "__hash__" =>
    /\ ret.eq = RetTrue =>
         (ret.hash.err = Ok /\ ret.other_hash = ret.hash)
    /\ \A i, j \in 1..Len(pawns) :
         pawn_key(pawns[i], OffsetOf(pawns), num_pawns)
           = pawn_key(pawns[j], OffsetOf(pawns), num_pawns) => i = j

\* after moves, a state and one equal to it under __eq__ that lies elsewhere
\* and lists its pawns in another order, with the same hash; the board is at
\* least 3 cells wide and 3 high
C26_Witness ==
  /\ ret.op = "__hash__"
  /\ nmoves > 0
  /\ ret.eq = RetTrue
  /\ ret.other_hash = ret.hash
  /\ OffsetOf(ret.other.pawns) # OffsetOf(pawns)
  /\ \E i \in 1..Len(pawns) :
       CoordSub(PawnToCoord(ret.other.pawns[i]), OffsetOf(ret.other.pawns))
         # CoordSub(PawnToCoord(pawns[i]), OffsetOf(pawns))
  /\ \E i, j \in 1..Len(pawns) :
       /\ pawns[i].x - pawns[j].x >= 2
       /\ \E k, l \in 1..Len(pawns) : pawns[k].y - pawns[l].y >= 2

====
